---- MODULE Spec2Model ----
(***************************************************************************)
(* A model of widgetastic.core's widget.py: the WidgetDescriptor sequence  *)
(* counter and per-view widget cache, ViewMetaclass, and View's            *)
(* widget_names / flush_widget_cache / fill / read.                        *)
(*                                                                         *)
(* Object identity.  A widget object is named by the path that built it:   *)
(* the root view is <<"I1">>, and the g-th object a descriptor d builds    *)
(* for owner o is Append(o, <<d, g>>).  The naming is injective, so two    *)
(* names are equal exactly when Python's `is` holds.                       *)
(***************************************************************************)
EXTENDS Integers, Sequences, FiniteSets, TLC

VARIABLES
    _seq_cnt,        \* WidgetDescriptor._seq_cnt
    _seq_cnt_lock,   \* WidgetDescriptor._seq_cnt_lock: 0 free, else the holding thread
    descs,           \* the WidgetDescriptor objects, by identity 1..Len(descs)
    classes,         \* the classes defined so far: class id -> [base, metaclass, attrs]
    body,            \* the text of the class statement the classes come from
    heap,            \* the Widget/View objects: object id -> its fields
    dom,             \* the browser's page: descriptor -> [status, text]
    op,              \* the call in progress or just finished, with what it did
    pc,              \* per thread: the line of widget.py it is about to run
    local,           \* per thread: its local variables
    acquired,        \* history: the threads in the order they took _seq_cnt_lock
    since            \* history: per (view, descriptor), the objects built and the
                     \* objects returned since the view's cache was last cleared

vars == <<_seq_cnt, _seq_cnt_lock, descs, classes, body, heap, dom, op, pc, local,
          acquired, since>>

-----------------------------------------------------------------------------
(* Bounds *)

\* statements in a drawn class body (SpecClass)
MaxDecl == 3
\* pairs in the mapping handed to View.fill
MaxPairs == 2
\* widget objects built in one run, the root view included
MaxObjs == 9
\* threads creating descriptors, and descriptors created in all (SpecSeq)
NThreads == 3
MaxCreations == 4
\* threads resolving the same descriptor on the same view (SpecGet)
NGetters == 2

-----------------------------------------------------------------------------
(* Helpers on sequences *)

Range(s) == {s[i] : i \in 1..Len(s)}

Perms(n) == {p \in [1..n -> 1..n] : \A i, j \in 1..n : p[i] = p[j] => i = j}

RECURSIVE SelectNames(_, _)
\* the names of `order` that are in S, in `order`'s order
SelectNames(order, S) ==
    IF order = <<>> THEN <<>>
    ELSE IF Head(order) \in S THEN <<Head(order)>> \o SelectNames(Tail(order), S)
    ELSE SelectNames(Tail(order), S)

\* Every attribute name of the model, in the order sorted() and dir() give
\* strings: plain string comparison.
Alphabet == <<"a", "b", "c", "d", "leaf", "n", "sub", "w">>

-----------------------------------------------------------------------------
(* Class ids and the library's classes *)

WidgetClass == <<"Widget">>
ViewClass == <<"View">>
NoClass == <<>>

\* An attribute value in a class namespace.
DescAttr(d) == [t |-> "desc", d |-> d, c |-> NoClass]
ClassAttr(c) == [t |-> "class", d |-> 0, c |-> c]
OtherAttr == [t |-> "other", d |-> 0, c |-> NoClass]

\* A statement of a class body.
Call(n, k) == [name |-> n, kind |-> "call", klass |-> k, body |-> <<>>]
NestedView(n, b) == [name |-> n, kind |-> "viewclass", klass |-> ViewClass, body |-> b]
Other(n) == [name |-> n, kind |-> "other", klass |-> NoClass, body |-> <<>>]
\* class n(Widget): pass
NestedWidget(n) == [name |-> n, kind |-> "widgetclass", klass |-> WidgetClass, body |-> <<>>]

\* widget.py defines Widget (line 60) and View (line 213, __metaclass__ =
\* ViewMetaclass on line 240); Input and Label are widget classes of a page.
LibraryClasses ==
    (WidgetClass :> [base |-> NoClass, metaclass |-> "none", attrs |-> <<>>]) @@
    (ViewClass :> [base |-> WidgetClass, metaclass |-> "ViewMetaclass", attrs |-> <<>>]) @@
    (<<"Input">> :> [base |-> WidgetClass, metaclass |-> "none", attrs |-> <<>>]) @@
    (<<"Label">> :> [base |-> WidgetClass, metaclass |-> "none", attrs |-> <<>>]) @@
    (<<"NoFill">> :> [base |-> WidgetClass, metaclass |-> "none", attrs |-> <<>>])

\* getattr(value, '__metaclass__', None): a class attribute, so subclasses see it.
RECURSIVE MetaclassOf(_, _)
MetaclassOf(cls, c) ==
    IF c = NoClass \/ c \notin DOMAIN cls THEN "none"
    ELSE IF cls[c].metaclass # "none" THEN cls[c].metaclass
    ELSE MetaclassOf(cls, cls[c].base)

RECURSIVE IsSubclass(_, _, _)
IsSubclass(cls, c, of) ==
    IF c = NoClass \/ c \notin DOMAIN cls THEN FALSE
    ELSE c = of \/ IsSubclass(cls, cls[c].base, of)

-----------------------------------------------------------------------------
(* WidgetDescriptor.__new__ / __init__, single-threaded *)

\* The interpreter state a class statement works on.
Interp(cnt, ds, cls) == [cnt |-> cnt, descs |-> ds, classes |-> cls]

\* with the lock: o._seq_id = _seq_cnt; _seq_cnt += 1; then __init__ sets klass
WidgetDescriptorNew(S, klass) ==
    [S EXCEPT !.descs = Append(S.descs, [klass |-> klass, _seq_id |-> S.cnt]),
              !.cnt = S.cnt + 1]

\* the descriptor WidgetDescriptorNew has just built
LastDesc(S) == Len(S.descs)

\* WidgetDescriptor.__get__ with obj None (class access): the descriptor itself
DescriptorClassGet(d) == d

-----------------------------------------------------------------------------
(* ViewMetaclass.__new__ and the class statement that calls it *)

\* inspect.isclass(value) and getattr(value, '__metaclass__', None) is cls
IsWrapped(cls, value) ==
    value.t = "class" /\ MetaclassOf(cls, value.c) = "ViewMetaclass"

RECURSIVE WrapAttrs(_, _, _, _)
\* for key, value in attrs.iteritems(): `keys` is the order iteritems() gives
WrapAttrs(S, attrs, keys, new_attrs) ==
    IF keys = <<>> THEN [S |-> S, attrs |-> new_attrs]
    ELSE LET key == Head(keys)
             value == attrs[key]
         IN IF IsWrapped(S.classes, value)
            THEN LET S1 == WidgetDescriptorNew(S, value.c)
                 IN WrapAttrs(S1, attrs, Tail(keys),
                              new_attrs @@ (key :> DescAttr(LastDesc(S1))))
            ELSE WrapAttrs(S, attrs, Tail(keys), new_attrs @@ (key :> value))

\* ViewMetaclass.__new__(cls, name, bases, attrs), then type.__new__
ViewMetaclassNew(S, cid, base, attrs, keys) ==
    LET w == WrapAttrs(S, attrs, keys, <<>>)
    IN [w.S EXCEPT !.classes = (cid :> [base |-> base, metaclass |-> "none",
                                        attrs |-> w.attrs]) @@ w.S.classes]

\* type.__new__(cls, name, bases, attrs) for a class with no metaclass of its own
TypeNew(S, cid, base, attrs) ==
    [S EXCEPT !.classes = (cid :> [base |-> base, metaclass |-> "none",
                                   attrs |-> attrs]) @@ S.classes]

RECURSIVE ClassStatement(_, _, _, _, _)
RECURSIVE EvalBody(_, _, _, _, _)
\* The statements of a class body, top to bottom, filling the namespace `attrs`.
\* SomeWidget(...) in a class body is Widget.__new__ without a parent: a
\* WidgetDescriptor.  `hashOrder` is the order the dict hashes the names into.
EvalBody(S, cid, stmts, attrs, hashOrder) ==
    IF stmts = <<>> THEN [S |-> S, attrs |-> attrs]
    ELSE LET st == Head(stmts)
         IN CASE st.kind = "call" ->
                   LET S1 == WidgetDescriptorNew(S, st.klass)
                   IN EvalBody(S1, cid, Tail(stmts),
                               attrs @@ (st.name :> DescAttr(LastDesc(S1))), hashOrder)
              [] st.kind = "viewclass" ->
                   LET nested == Append(cid, st.name)
                       S1 == ClassStatement(S, nested, st.klass, st.body, hashOrder)
                   IN EvalBody(S1, cid, Tail(stmts),
                               attrs @@ (st.name :> ClassAttr(nested)), hashOrder)
              [] st.kind = "widgetclass" ->
                   LET nested == Append(cid, st.name)
                       S1 == TypeNew(S, nested, st.klass, <<>>)
                   IN EvalBody(S1, cid, Tail(stmts),
                               attrs @@ (st.name :> ClassAttr(nested)), hashOrder)
              [] OTHER ->
                   EvalBody(S, cid, Tail(stmts), attrs @@ (st.name :> OtherAttr), hashOrder)

\* class <cid>(<base>): <stmts> -- the body runs, then the metaclass builds the class
ClassStatement(S, cid, base, stmts, hashOrder) ==
    LET b == EvalBody(S, cid, stmts, <<>>, hashOrder)
    IN ViewMetaclassNew(b.S, cid, base, b.attrs,
                        SelectNames(hashOrder, DOMAIN b.attrs))

-----------------------------------------------------------------------------
(* View.widget_names *)

RECURSIVE AttrNames(_, _)
\* the names dir(cls) finds: the class's own and its bases'
AttrNames(cls, c) ==
    IF c = NoClass \/ c \notin DOMAIN cls THEN {}
    ELSE DOMAIN cls[c].attrs \cup AttrNames(cls, cls[c].base)

\* dir(cls): the names, sorted
Dir(cls, c) == SelectNames(Alphabet, AttrNames(cls, c))

RECURSIVE ClassGetAttr(_, _, _)
\* getattr(cls, key): the first class of the MRO that has key
ClassGetAttr(cls, c, key) ==
    IF key \in DOMAIN cls[c].attrs THEN cls[c].attrs[key]
    ELSE ClassGetAttr(cls, cls[c].base, key)

RECURSIVE InsertByKey(_, _, _)
\* x goes after every element whose key is not greater: sorted() is stable
InsertByKey(ds, x, s) ==
    IF s = <<>> THEN <<x>>
    ELSE IF ds[Head(s).d]._seq_id <= ds[x.d]._seq_id
         THEN <<Head(s)>> \o InsertByKey(ds, x, Tail(s))
         ELSE <<x>> \o s

\* the pairs as dir() gave them
InDirOrder(ds, result, acc) == acc \o result

RECURSIVE SortedBySeqId(_, _, _)
\* sorted(result, key=lambda pair: pair[1]._seq_id)
SortedBySeqId(ds, result, acc) ==
    IF result = <<>> THEN acc
    ELSE SortedBySeqId(ds, Tail(result), InsertByKey(ds, Head(result), acc))

RECURSIVE DescriptorPairs(_, _, _)
\* the (key, value) pairs of dir(cls) whose value is a WidgetDescriptor
DescriptorPairs(cls, c, keys) ==
    IF keys = <<>> THEN <<>>
    ELSE LET value == ClassGetAttr(cls, c, Head(keys))
             rest == DescriptorPairs(cls, c, Tail(keys))
         IN IF value.t = "desc"
            THEN <<[name |-> Head(keys), d |-> DescriptorClassGet(value.d)]>> \o rest
            ELSE rest

\* View.widget_names(cls), as (name, descriptor) pairs in the order returned
widget_pairs(ds, cls, c) ==
    SortedBySeqId(ds, DescriptorPairs(cls, c, Dir(cls, c)), <<>>)

widget_names(ds, cls, c) ==
    LET ps == widget_pairs(ds, cls, c) IN [i \in 1..Len(ps) |-> ps[i].name]

-----------------------------------------------------------------------------
(* Python values that cross the API, and the record of a call *)

None == [t |-> "none", s |-> "", m |-> <<>>]
Str(s) == [t |-> "str", s |-> s, m |-> <<>>]
Bool(b) == [t |-> "bool", s |-> IF b THEN "True" ELSE "False", m |-> <<>>]
\* a dict, as its (name, value) pairs in iteration order
Map(m) == [t |-> "map", s |-> "", m |-> m]
Ref(o) == [t |-> "ref", s |-> "", m |-> o]
List(names) == [t |-> "list", s |-> "", m |-> names]
Pair(n, v) == [name |-> n, value |-> v]

\* what a call works on: the objects, the page, and the trace of what it did
Ctx(h, pg, log) == [heap |-> h, dom |-> pg, log |-> log]
Event(e, o, v) == [e |-> e, o |-> o, v |-> v]
Logged(X, e, o, v) == [X EXCEPT !.log = Append(X.log, Event(e, o, v))]

\* how a call ended: exc = "" is a normal return of ret
Returned(X, ret) == [X |-> X, exc |-> "", ret |-> ret]
Raised(X, exc) == [X |-> X, exc |-> exc, ret |-> None]
\* a raise statement run by self (a failure passing through is not logged again)
Raise(X, self, exc) == Raised(Logged(X, "raise", self, Str(exc)), exc)

\* pre and page are the objects and the page as the call found them
Idle == [name |-> "idle", self |-> <<>>, args |-> None, exc |-> "", ret |-> None,
         log |-> <<>>, pre |-> <<>>, page |-> <<>>]
Done(name, self, args, r, pre, page) ==
    [name |-> name, self |-> self, args |-> args, exc |-> r.exc, ret |-> r.ret,
     log |-> r.X.log, pre |-> pre, page |-> page]

-----------------------------------------------------------------------------
(* Objects: Widget.__new__ / __init__, View.__init__, WidgetDescriptor.__get__ *)

Root == <<"I1">>
Browser == <<>>

IsView(o, h) == IsSubclass(classes, h[o].klass, ViewClass)

\* the objects descriptor d has built for owner obj
BuiltBy(h, obj, d) ==
    {q \in DOMAIN h : h[q].parent = obj /\ q[Len(q)][1] = d}

\* Widget.__init__(self, parent): self.parent = parent; View.__init__ adds
\* self.context and self._widget_cache = {}
NewObject(klass, parent) == [klass |-> klass, parent |-> parent, _widget_cache |-> <<>>]

\* self.klass(obj, *self.args, **self.kwargs): args[0] is a Widget, so
\* Widget.__new__ builds a real instance and __init__ runs
Construct(X, d, obj) ==
    LET o == Append(obj, <<d, Cardinality(BuiltBy(X.heap, obj, d)) + 1>>)
        h == (o :> NewObject(descs[d].klass, obj)) @@ X.heap
    IN [X |-> Logged([X EXCEPT !.heap = h], "new", o, None), o |-> o]

\* obj._widget_cache[self] = widget
CacheStoreOnClass(h, obj, d, o) ==
    [q \in DOMAIN h |->
        IF h[q].klass = h[obj].klass
        THEN [h[q] EXCEPT !._widget_cache = (d :> o) @@ h[q]._widget_cache]
        ELSE h[q]]
CacheStore(h, obj, d, o) ==
    [h EXCEPT ![obj]._widget_cache = (d :> o) @@ h[obj]._widget_cache]

\* line 43: self not in obj._widget_cache
NotCachedAlways(cache, d) == TRUE
NotCached(cache, d) == d \notin DOMAIN cache

\* WidgetDescriptor.__get__(self, obj) with obj an instance
DescriptorGet(X, d, obj) ==
    IF NotCached(X.heap[obj]._widget_cache, d)
    THEN LET c == Construct(X, d, obj)
             X1 == [c.X EXCEPT !.heap = CacheStore(c.X.heap, obj, d, c.o)]
             o == X1.heap[obj]._widget_cache[d]
         IN [X |-> Logged(X1, "get", o, Ref(<<obj, d>>)), o |-> o]
    ELSE LET o == X.heap[obj]._widget_cache[d]
         IN [X |-> Logged(X, "get", o, Ref(<<obj, d>>)), o |-> o]

WidgetNamesOf(c) == widget_names(descs, classes, c)

\* getattr(self, name) for a widget name: the class's descriptor, resolved on self
GetAttr(X, self, name) ==
    DescriptorGet(X, ClassGetAttr(classes, X.heap[self].klass, name).d, self)

RECURSIVE IterView(_, _, _, _)
\* View.__iter__, run to the end: for widget_attr in self.widget_names():
\* yield getattr(self, widget_attr)
IterView(X, self, names, acc) ==
    IF names = <<>> THEN [X |-> X, items |-> acc]
    ELSE LET g == GetAttr(X, self, Head(names))
         IN IterView(g.X, self, Tail(names), Append(acc, g.o))

\* View._views: [view for view in self if isinstance(view, View)]
Views(X, self) ==
    LET it == IterView(X, self, WidgetNamesOf(X.heap[self].klass), <<>>)
    IN [X |-> it.X,
        views |-> SelectSeq(it.items, LAMBDA o : IsView(o, it.X.heap))]

\* view._widget_cache.clear()
ClearCacheKept(X, view) == Logged(X, "clear", view, None)
ClearCache(X, view) ==
    Logged([X EXCEPT !.heap[view]._widget_cache = <<>>], "clear", view, None)

RECURSIVE ClearEach(_, _)
\* for view in self._views: view._widget_cache.clear()
ClearEach(X, views) ==
    IF views = <<>> THEN X
    ELSE ClearEach(ClearCache(X, Head(views)), Tail(views))

\* View.flush_widget_cache(self)
FlushWidgetCache(X, self) ==
    LET v == Views(X, self)
    IN Returned(ClearCache(ClearEach(v.X, v.views), self), None)

\* The history `since` after the events of one call.
NoHistory == [built |-> {}, got |-> {}]
HistoryOf(hist, k) == IF k \in DOMAIN hist THEN hist[k] ELSE NoHistory

RECURSIVE Recorded(_, _)
Recorded(hist, log) ==
    IF log = <<>> THEN hist
    ELSE LET ev == Head(log)
             k == <<SubSeq(ev.o, 1, Len(ev.o) - 1), ev.o[Len(ev.o)][1]>>
         IN CASE ev.e = "new" ->
                   Recorded((k :> [HistoryOf(hist, k) EXCEPT !.built = @ \cup {ev.o}])
                            @@ hist, Tail(log))
              [] ev.e = "get" ->
                   Recorded((k :> [HistoryOf(hist, k) EXCEPT !.got = @ \cup {ev.o}])
                            @@ hist, Tail(log))
              [] ev.e = "clear" ->
                   Recorded([j \in {i \in DOMAIN hist : i[1] # ev.o} |-> hist[j]],
                            Tail(log))
              [] OTHER -> Recorded(hist, Tail(log))

-----------------------------------------------------------------------------
(* Widget.fill / Widget.read and the page's widget classes *)

\* the descriptor that built widget o: it names the element o stands for
ElementOf(o) == o[Len(o)][1]

\* browser.element(widget): the lookup fails when the element is not on the
\* page, and otherwise as the driver fails
Lookup(pg, o) ==
    CASE pg[ElementOf(o)].status = "absent" -> "NoSuchElementException"
      [] pg[ElementOf(o)].status = "stale" -> "StaleElementReferenceException"
      [] OTHER -> ""

\* Widget.fill(self), called with the positional arguments `args`: the
\* signature takes none, so the call itself fails when one is passed
WidgetFill(X, self, args) ==
    IF Len(args) # 0 THEN Raise(X, self, "TypeError")
    ELSE Raise(X, self, "NotImplementedError")

\* Widget.read(self)
WidgetRead(X, self) == Raise(X, self, "NotImplementedError")

\* An input box, written to the contract of Widget.fill's docstring: fill
\* returns whether it changed the value; read returns the value
InputFill(X, self, value) ==
    IF Lookup(X.dom, self) # "" THEN Raise(X, self, Lookup(X.dom, self))
    ELSE IF X.dom[ElementOf(self)].text = value.s THEN Returned(X, Bool(FALSE))
    ELSE Returned([X EXCEPT !.dom[ElementOf(self)].text = value.s], Bool(TRUE))

\* Input.read and Label.read: the element's text
TextRead(X, self) ==
    IF Lookup(X.dom, self) # "" THEN Raise(X, self, Lookup(X.dom, self))
    ELSE Returned(X, Str(X.dom[ElementOf(self)].text))

\* bool(x) of a returned value
Truthy(v) == v = Bool(TRUE)

-----------------------------------------------------------------------------
(* View.fill and View.read *)

RECURSIVE ViewFill(_, _, _)
RECURSIVE FillLoop(_, _, _, _, _)
RECURSIVE FillCall(_, _, _)
RECURSIVE ViewRead(_, _)
RECURSIVE ReadLoop(_, _, _, _)
RECURSIVE ReadCall(_, _)

\* widget.fill(value), by the class of widget: View.fill for a view, Input's
\* own fill, NoFill's own fill(self, value) that raises NotImplementedError,
\* and Widget.fill for a class that does not define fill (Label)
FillCall(X, widget, value) ==
    LET klass == X.heap[widget].klass
    IN CASE IsView(widget, X.heap) -> ViewFill(X, widget, value)
         [] klass = <<"Input">> -> InputFill(X, widget, value)
         [] klass = <<"NoFill">> -> Raise(X, widget, "NotImplementedError")
         [] OTHER -> WidgetFill(X, widget, <<value>>)

\* except NotImplementedError: (anything else passes through)
FillCaughtAsRead(exc) == exc \in {"NotImplementedError", "NoSuchElementException"}
FillCaught(exc) == exc = "NotImplementedError"

\* lines 317-318: raise NameError(...)
OnUnknownNameSkip(X, self, names, pairs, was_change) ==
    FillLoop(X, self, names, Tail(pairs), was_change)
OnUnknownName(X, self, names, pairs, was_change) == Raise(X, self, "NameError")

\* line 319: if value is None:
IsNoneNever(value) == FALSE
IsNone(value) == value = None

\* lines 324-325: if widget.fill(value): was_change = True
WasChangeLast(was_change, ret) == Truthy(ret)
WasChange(was_change, ret) == was_change \/ Truthy(ret)

\* for name, value in values.iteritems(): ... then after_fill and return;
\* each turn of the loop is logged as "pair", and how widget.fill(value) came
\* back to the try block as "filled" (with the value) or "failed" (the failure)
FillLoop(X, self, names, pairs, was_change) ==
    IF pairs = <<>>
    THEN Returned(Logged(X, "after_fill", self, Bool(was_change)), Bool(was_change))
    ELSE LET name == Head(pairs).name
             value == Head(pairs).value
             X0 == Logged(X, "pair", self, Str(name))
         IN IF name \notin Range(names)
            THEN OnUnknownName(X0, self, names, pairs, was_change)
            ELSE IF IsNone(value) THEN FillLoop(X0, self, names, Tail(pairs), was_change)
            ELSE LET g == GetAttr(X0, self, name)
                     r == FillCall(Logged(g.X, "fill", g.o, value), g.o, value)
                 IN IF r.exc = ""
                    THEN FillLoop(Logged(r.X, "filled", g.o, r.ret), self, names,
                                  Tail(pairs), WasChange(was_change, r.ret))
                    ELSE IF FillCaught(r.exc)
                    THEN FillLoop(Logged(r.X, "failed", g.o, Str(r.exc)), self, names,
                                  Tail(pairs), was_change)
                    ELSE [r EXCEPT !.X = Logged(r.X, "failed", g.o, Str(r.exc))]

\* View.fill(self, values)
ViewFill(X, self, values) ==
    LET names == WidgetNamesOf(X.heap[self].klass)
        X1 == Logged(X, "before_fill", self, values)
    IN IF values.t # "map" THEN Raise(X1, self, "AttributeError")
       ELSE FillLoop(X1, self, names, values.m, FALSE)

\* widget.read(), by the class of widget
ReadCall(X, widget) ==
    LET klass == X.heap[widget].klass
    IN CASE IsView(widget, X.heap) -> ViewRead(X, widget)
         [] klass \in {<<"Input">>, <<"Label">>} -> TextRead(X, widget)
         [] OTHER -> WidgetRead(X, widget)

\* except (NotImplementedError, NoSuchElementException): continue
ReadCaughtOnlyNotImplemented(exc) == exc = "NotImplementedError"
ReadCaught(exc) == exc \in {"NotImplementedError", "NoSuchElementException"}

\* for widget_name in self.widget_names(): ... then return result
ReadLoop(X, self, names, result) ==
    IF names = <<>> THEN Returned(X, Map(result))
    ELSE LET g == GetAttr(X, self, Head(names))
             r == ReadCall(Logged(g.X, "read", g.o, None), g.o)
         IN IF r.exc = ""
            THEN ReadLoop(r.X, self, Tail(names), Append(result, Pair(Head(names), r.ret)))
            ELSE IF ReadCaught(r.exc) THEN ReadLoop(r.X, self, Tail(names), result)
            ELSE r

\* View.read(self)
ViewRead(X, self) ==
    ReadLoop(X, self, WidgetNamesOf(X.heap[self].klass), <<>>)

-----------------------------------------------------------------------------
(* The page under test *)

\* class Top(View):
\*     a = Input('a')
\*     b = Label('b')
\*     class sub(View):
\*         c = Input('c')
\*         class leaf(View):
\*             d = Input('d')
AppBody ==
    <<Call("a", <<"Input">>),
      Call("b", <<"Label">>),
      NestedView("sub", <<Call("c", <<"Input">>),
                          NestedView("leaf", <<Call("d", <<"Input">>)>>)>>)>>

TopClass == <<"Top">>

\* the orders a dict may hash the names `names` into
HashOrders(names) ==
    {[i \in 1..Len(names) |-> names[p[i]]] : p \in Perms(Len(names))}

\* the interpreter before any class statement of the program has run
Fresh == Interp(0, <<>>, LibraryClasses)

\* every element present, showing "x"
FreshPage(ds) == [d \in 1..Len(ds) |-> [status |-> "ok", text |-> "x"]]

NoThreads == <<>>

\* the program's classes are defined and one Top view is built on the browser
InitApp(stmts, names) ==
    /\ \E hashOrder \in HashOrders(names) :
          LET S == ClassStatement(Fresh, TopClass, ViewClass, stmts, hashOrder)
          IN /\ _seq_cnt = S.cnt
             /\ descs = S.descs
             /\ classes = S.classes
    /\ body = stmts
    /\ heap = (Root :> NewObject(TopClass, Browser))
    /\ op = Idle
    /\ _seq_cnt_lock = 0
    /\ acquired = <<>>
    /\ since = <<>>

AppNames == <<"a", "b", "c", "d", "leaf", "sub">>

Init ==
    /\ InitApp(AppBody, AppNames)
    /\ dom = FreshPage(descs)
    /\ pc = NoThreads
    /\ local = NoThreads

ViewObjects == {o \in DOMAIN heap : IsView(o, heap)}

Here == Ctx(heap, dom, <<>>)

\* the caller evaluates view.<name>
Access(o, name) ==
    /\ op.name = "idle"
    /\ LET g == GetAttr(Here, o, name)
       IN /\ Cardinality(DOMAIN g.X.heap) <= MaxObjs
          /\ heap' = g.X.heap
          /\ op' = Done("getattr", o, Str(name), Returned(g.X, Ref(g.o)), heap, dom)
          /\ since' = Recorded(since, g.X.log)
    /\ UNCHANGED <<_seq_cnt, _seq_cnt_lock, descs, classes, body, dom, pc, local, acquired>>

\* the caller calls view.flush_widget_cache()
Flush(o) ==
    /\ op.name = "idle"
    /\ LET r == FlushWidgetCache(Here, o)
       IN /\ Cardinality(DOMAIN r.X.heap) <= MaxObjs
          /\ heap' = r.X.heap
          /\ op' = Done("flush_widget_cache", o, None, r, heap, dom)
          /\ since' = Recorded(since, r.X.log)
    /\ UNCHANGED <<_seq_cnt, _seq_cnt_lock, descs, classes, body, dom, pc, local, acquired>>

\* a WidgetDescriptor as a returned value
Desc(d) == [t |-> "desc", s |-> "", m |-> <<d>>]

\* lines 39-40, reached through getattr(cls, key): if obj is None: return self
ClassAccessBuilds(X, d) ==
    LET c == Construct(X, d, Root) IN [X |-> c.X, value |-> Ref(c.o)]
ClassAccess(X, d) == [X |-> X, value |-> Desc(DescriptorClassGet(d))]

RECURSIVE ClassScan(_, _, _, _)
\* lines 260-264: for key in dir(cls): value = getattr(cls, key);
\* if isinstance(value, WidgetDescriptor): result.append((key, value))
ClassScan(X, c, keys, result) ==
    IF keys = <<>> THEN [X |-> X, result |-> result]
    ELSE LET attr == ClassGetAttr(classes, c, Head(keys))
             g == IF attr.t = "desc" THEN ClassAccess(X, attr.d)
                  ELSE [X |-> X, value |-> None]
         IN IF g.value.t = "desc"
            THEN ClassScan(g.X, c, Tail(keys),
                           Append(result, [name |-> Head(keys), d |-> g.value.m[1]]))
            ELSE ClassScan(g.X, c, Tail(keys), result)

\* View.widget_names(cls), as the call the interpreter runs
WidgetNamesCall(X, c) ==
    LET scan == ClassScan(X, c, Dir(classes, c), <<>>)
        ps == SortedBySeqId(descs, scan.result, <<>>)
    IN Returned(scan.X, List([i \in 1..Len(ps) |-> ps[i].name]))

\* the view classes of the program
ViewClasses == {c \in DOMAIN classes : IsSubclass(classes, c, ViewClass)}

\* the caller evaluates <class>.<name>
ClassGet(c, name) ==
    /\ op.name = "idle"
    /\ LET g == ClassAccess(Here, ClassGetAttr(classes, c, name).d)
       IN /\ heap' = g.X.heap
          /\ op' = Done("class_getattr", c, Str(name), Returned(g.X, g.value), heap, dom)
          /\ since' = Recorded(since, g.X.log)
    /\ UNCHANGED <<_seq_cnt, _seq_cnt_lock, descs, classes, body, dom, pc, local, acquired>>

\* the caller calls <class>.widget_names()
ClassWidgetNames(c) ==
    /\ op.name = "idle"
    /\ LET r == WidgetNamesCall(Here, c)
       IN /\ heap' = r.X.heap
          /\ op' = Done("widget_names", c, None, r, heap, dom)
          /\ since' = Recorded(since, r.X.log)
    /\ UNCHANGED <<_seq_cnt, _seq_cnt_lock, descs, classes, body, dom, pc, local, acquired>>

\* the caller is done with the result of the last call
Return ==
    /\ op.name # "idle"
    /\ op' = Idle
    /\ UNCHANGED <<_seq_cnt, _seq_cnt_lock, descs, classes, body, heap, dom, pc, local,
                   acquired, since>>

Next ==
    \/ \E o \in ViewObjects : \E name \in Range(WidgetNamesOf(heap[o].klass)) : Access(o, name)
    \/ \E o \in ViewObjects : Flush(o)
    \/ \E c \in ViewClasses : \E name \in Range(WidgetNamesOf(c)) : ClassGet(c, name)
    \/ \E c \in ViewClasses : ClassWidgetNames(c)
    \/ Return

Spec == Init /\ [][Next]_vars

-----------------------------------------------------------------------------
(* Claims about the widget cache, under Spec *)

\* the objects the constructor calls of a call's trace built
NewObjects(log) == {log[i].o : i \in {j \in 1..Len(log) : log[j].e = "new"}}

\* C1: over any run of accesses of a descriptor on a view with no
\* flush_widget_cache() in between, the widget class is constructed exactly
\* once and every access returns that one object.
C1_AtMostOnceConstruction ==
    \A k \in DOMAIN since :
        since[k].got # {} =>
            /\ Cardinality(since[k].built) = 1
            /\ since[k].got = since[k].built

\* C1 witness: a second access of an already resolved descriptor has returned.
C1_Witness ==
    /\ op.name = "getattr"
    /\ ClassGetAttr(classes, heap[op.self].klass, op.args.s).d
          \in DOMAIN op.pre[op.self]._widget_cache
    /\ NewObjects(op.log) = {}

\* C3: flush_widget_cache() invokes no widget or sub-view constructor.
C3_FlushConstructsNothing ==
    op.name = "flush_widget_cache" =>
        /\ NewObjects(op.log) = {}
        /\ DOMAIN heap = DOMAIN op.pre

RECURSIVE CachedBelow(_, _, _)
\* the views cached, at any depth up to n, below view o in heap h
CachedBelow(h, o, n) ==
    IF n = 0 THEN {}
    ELSE LET kids == {h[o]._widget_cache[d] : d \in DOMAIN h[o]._widget_cache}
             sub == {q \in kids : IsView(q, h)}
         IN sub \cup UNION {CachedBelow(h, q, n - 1) : q \in sub}

\* C4: after flush_widget_cache() the cache of the view and of every sub-view
\* that was cached at any depth below it is empty.
C4_FlushIsRecursive ==
    op.name = "flush_widget_cache" =>
        \A q \in {op.self} \cup CachedBelow(op.pre, op.self, Cardinality(DOMAIN op.pre)) :
            DOMAIN heap[q]._widget_cache = {}

\* C18: getting a descriptor through the class, and so widget_names(), gives
\* the descriptor itself, builds no widget and leaves every view's cache alone.
C18_ClassAccessPure ==
    op.name \in {"class_getattr", "widget_names"} =>
        /\ op.exc = ""
        /\ NewObjects(op.log) = {}
        /\ heap = op.pre
        /\ op.name = "class_getattr" =>
              op.ret = Desc(ClassGetAttr(classes, op.self, op.args.s).d)
        /\ op.name = "widget_names" => op.ret = List(WidgetNamesOf(op.self))

\* C18 witness: widget_names() has returned the names of a class while a view
\* of that class holds resolved widgets.
C18_Witness ==
    /\ op.name = "widget_names"
    /\ op.ret.m # <<>>
    /\ \E o \in DOMAIN heap : heap[o].klass = op.self /\ heap[o]._widget_cache # <<>>

-----------------------------------------------------------------------------
(* SpecClass: a class statement with a drawn body, then widget_names() *)

Statement(kind, name) ==
    CASE kind = "call" -> Call(name, <<"Input">>)
      [] kind = "viewclass" -> NestedView(name, <<Call("w", <<"Input">>)>>)
      [] kind = "widgetclass" -> NestedWidget(name)
      [] OTHER -> Other(name)

\* class bodies of up to MaxDecl statements: each a widget call, a nested view
\* class, a nested widget class or another attribute, under names in any
\* alphabetical position
BodiesOf(K) ==
    UNION {{[i \in 1..n |-> Statement(kinds[i], Alphabet[p[i]])] :
               kinds \in [1..n -> K], p \in Perms(n)} :
           n \in 1..MaxDecl}

DrawnBodies == BodiesOf({"call", "viewclass", "widgetclass", "other"})

\* nothing is defined yet
InitClass ==
    /\ body \in DrawnBodies
    /\ _seq_cnt = Fresh.cnt
    /\ descs = Fresh.descs
    /\ classes = Fresh.classes
    /\ heap = <<>>
    /\ dom = <<>>
    /\ op = Idle
    /\ _seq_cnt_lock = 0
    /\ pc = NoThreads
    /\ local = NoThreads
    /\ acquired = <<>>
    /\ since = <<>>

\* the interpreter runs `class Top(View): <body>`
DefineView ==
    /\ TopClass \notin DOMAIN classes
    /\ \E hashOrder \in HashOrders([i \in 1..Len(body) |-> body[i].name] \o <<"w">>) :
          LET S == ClassStatement(Interp(_seq_cnt, descs, classes), TopClass, ViewClass,
                                  body, hashOrder)
          IN /\ _seq_cnt' = S.cnt
             /\ descs' = S.descs
             /\ classes' = S.classes
    /\ UNCHANGED <<_seq_cnt_lock, body, heap, dom, op, pc, local, acquired, since>>

\* the caller calls Top.widget_names()
CallWidgetNames ==
    /\ TopClass \in DOMAIN classes
    /\ op.name = "idle"
    /\ op' = [Idle EXCEPT !.name = "widget_names", !.self = TopClass,
                          !.ret = List(WidgetNamesOf(TopClass))]
    /\ UNCHANGED <<_seq_cnt, _seq_cnt_lock, descs, classes, body, heap, dom, pc, local,
                   acquired, since>>

NextClass ==
    \/ DefineView
    \/ CallWidgetNames
    \/ Return

SpecClass == InitClass /\ [][NextClass]_vars

RECURSIVE DeclaredWidgets(_)
\* the names a class body declares as widgets or nested views, top to bottom
DeclaredWidgets(stmts) ==
    IF stmts = <<>> THEN <<>>
    ELSE IF Head(stmts).kind \in {"call", "viewclass"}
         THEN <<Head(stmts).name>> \o DeclaredWidgets(Tail(stmts))
         ELSE DeclaredWidgets(Tail(stmts))

\* C2: widget_names() returns the widgets and nested views of the class body
\* in the order the body declares them.
C2_DeclarationOrder ==
    op.name = "widget_names" => op.ret.m = DeclaredWidgets(body)

\* C15: when the class statement of a view class has run, every attribute of
\* its body that is a View class or a Widget class is a WidgetDescriptor for
\* that class and is among widget_names(), and every other attribute is as
\* the body declared it.
C15_AutomaticWrapping ==
    TopClass \in DOMAIN classes =>
        \A i \in 1..Len(body) :
            LET st == body[i]
                value == classes[TopClass].attrs[st.name]
            IN CASE st.kind \in {"viewclass", "widgetclass"} ->
                      /\ value.t = "desc"
                      /\ descs[value.d].klass = Append(TopClass, st.name)
                      /\ st.name \in Range(WidgetNamesOf(TopClass))
                 [] st.kind = "call" ->
                      /\ value.t = "desc"
                      /\ descs[value.d].klass = st.klass
                 [] OTHER -> value = OtherAttr

-----------------------------------------------------------------------------
(* SpecSeq: threads creating WidgetDescriptors, one line of __new__ per step *)

Threads == 1..NThreads

\* the attribute is not set yet
Unset == -1

\* the lock can be taken
LockIgnored(lock) == TRUE
LockFree(lock) == lock = 0

InitSeq ==
    /\ _seq_cnt = 0
    /\ _seq_cnt_lock = 0
    /\ descs = <<>>
    /\ classes = LibraryClasses
    /\ body = <<>>
    /\ heap = <<>>
    /\ dom = <<>>
    /\ op = Idle
    /\ pc = [t \in Threads |-> "idle"]
    /\ local = [t \in Threads |-> [o |-> <<t, 0>>, tmp |-> 0]]
    /\ acquired = <<>>
    /\ since = <<>>

\* line 27: o = super(WidgetDescriptor, cls).__new__(cls)
SeqNew(t) ==
    /\ pc[t] = "idle"
    /\ Cardinality(DOMAIN descs) < MaxCreations
    /\ LET o == <<t, local[t].o[2] + 1>>
       IN /\ descs' = (o :> [klass |-> NoClass, _seq_id |-> Unset]) @@ descs
          /\ local' = [local EXCEPT ![t].o = o]
    /\ pc' = [pc EXCEPT ![t] = "lock"]
    /\ UNCHANGED <<_seq_cnt, _seq_cnt_lock, classes, body, heap, dom, op, acquired, since>>

\* line 28: with WidgetDescriptor._seq_cnt_lock: (enter)
SeqAcquire(t) ==
    /\ pc[t] = "lock"
    /\ LockFree(_seq_cnt_lock)
    /\ _seq_cnt_lock' = t
    /\ acquired' = Append(acquired, local[t].o)
    /\ pc' = [pc EXCEPT ![t] = "assign"]
    /\ UNCHANGED <<_seq_cnt, descs, classes, body, heap, dom, op, local, since>>

\* line 29: o._seq_id = WidgetDescriptor._seq_cnt
SeqAssign(t) ==
    /\ pc[t] = "assign"
    /\ descs' = [descs EXCEPT ![local[t].o]._seq_id = _seq_cnt]
    /\ pc' = [pc EXCEPT ![t] = "load"]
    /\ UNCHANGED <<_seq_cnt, _seq_cnt_lock, classes, body, heap, dom, op, local, acquired,
                   since>>

\* line 30: WidgetDescriptor._seq_cnt += 1 (the read)
SeqLoad(t) ==
    /\ pc[t] = "load"
    /\ local' = [local EXCEPT ![t].tmp = _seq_cnt]
    /\ pc' = [pc EXCEPT ![t] = "store"]
    /\ UNCHANGED <<_seq_cnt, _seq_cnt_lock, descs, classes, body, heap, dom, op, acquired,
                   since>>

\* line 30: WidgetDescriptor._seq_cnt += 1 (the write)
SeqStore(t) ==
    /\ pc[t] = "store"
    /\ _seq_cnt' = local[t].tmp + 1
    /\ pc' = [pc EXCEPT ![t] = "unlock"]
    /\ UNCHANGED <<_seq_cnt_lock, descs, classes, body, heap, dom, op, local, acquired,
                   since>>

\* the end of the with block: the lock is released
SeqRelease(t) ==
    /\ pc[t] = "unlock"
    /\ _seq_cnt_lock' = 0
    /\ pc' = [pc EXCEPT ![t] = "init"]
    /\ UNCHANGED <<_seq_cnt, descs, classes, body, heap, dom, op, local, acquired, since>>

\* line 31 and __init__: return o; self.klass = klass
SeqInit(t) ==
    /\ pc[t] = "init"
    /\ descs' = [descs EXCEPT ![local[t].o].klass = WidgetClass]
    /\ pc' = [pc EXCEPT ![t] = "idle"]
    /\ UNCHANGED <<_seq_cnt, _seq_cnt_lock, classes, body, heap, dom, op, local, acquired,
                   since>>

NextSeq ==
    \E t \in Threads :
        \/ SeqNew(t)
        \/ SeqAcquire(t)
        \/ SeqAssign(t)
        \/ SeqLoad(t)
        \/ SeqStore(t)
        \/ SeqRelease(t)
        \/ SeqInit(t)

SpecSeq == InitSeq /\ [][NextSeq]_vars

\* C5: concurrent creations get distinct sequence ids, in the order they took
\* the lock, and no increment of the counter is lost.
C5_SequenceUniqueness ==
    /\ \A d1, d2 \in DOMAIN descs :
          (d1 # d2 /\ descs[d1]._seq_id # Unset) => descs[d1]._seq_id # descs[d2]._seq_id
    /\ \A i \in 1..Len(acquired) :
          \/ descs[acquired[i]]._seq_id = i - 1
          \/ /\ descs[acquired[i]]._seq_id = Unset
             /\ i = Len(acquired)
             /\ pc[acquired[i][1]] = "assign"
    /\ (\A t \in Threads : pc[t] \notin {"assign", "load", "store"})
          => _seq_cnt = Len(acquired)

\* C5 witness: every creation is finished, by more than one thread, and one
\* thread took the lock between two takings of another.
C5_Witness ==
    /\ Len(acquired) = MaxCreations
    /\ \A t \in Threads : pc[t] = "idle"
    /\ \E i \in 1..Len(acquired) - 2 :
          /\ acquired[i][1] = acquired[i + 2][1]
          /\ acquired[i][1] # acquired[i + 1][1]

-----------------------------------------------------------------------------
(* SpecGet: threads resolving descriptors on one view, one line of __get__ per step *)

Getters == 1..NGetters

InitGet ==
    /\ InitApp(AppBody, AppNames)
    /\ dom = FreshPage(descs)
    /\ pc = [t \in Getters |-> "idle"]
    /\ local = [t \in Getters |-> [d |-> 0, built |-> <<>>, ret |-> <<>>]]

\* thread t evaluates view.<name>: the class's descriptor, __get__(view)
GetStart(t, name) ==
    /\ pc[t] = "idle"
    /\ local' = [local EXCEPT ![t] = [d |-> ClassGetAttr(classes, heap[Root].klass, name).d,
                                      built |-> <<>>, ret |-> <<>>]]
    /\ pc' = [pc EXCEPT ![t] = "check"]
    /\ UNCHANGED <<_seq_cnt, _seq_cnt_lock, descs, classes, body, heap, dom, op, acquired,
                   since>>

\* line 43: if self not in obj._widget_cache:
GetCheck(t) ==
    /\ pc[t] = "check"
    /\ pc' = [pc EXCEPT ![t] = IF NotCached(heap[Root]._widget_cache, local[t].d)
                               THEN "build" ELSE "load"]
    /\ UNCHANGED <<_seq_cnt, _seq_cnt_lock, descs, classes, body, heap, dom, op, local,
                   acquired, since>>

\* line 44, right-hand side: self.klass(obj, *self.args, **self.kwargs)
GetBuild(t) ==
    /\ pc[t] = "build"
    /\ Cardinality(DOMAIN heap) < MaxObjs
    /\ LET c == Construct(Here, local[t].d, Root)
       IN /\ heap' = c.X.heap
          /\ local' = [local EXCEPT ![t].built = c.o]
          /\ since' = Recorded(since, c.X.log)
    /\ pc' = [pc EXCEPT ![t] = "store"]
    /\ UNCHANGED <<_seq_cnt, _seq_cnt_lock, descs, classes, body, dom, op, acquired>>

\* line 44: obj._widget_cache[self] = <the widget built>
GetStore(t) ==
    /\ pc[t] = "store"
    /\ heap' = CacheStore(heap, Root, local[t].d, local[t].built)
    /\ pc' = [pc EXCEPT ![t] = "load"]
    /\ UNCHANGED <<_seq_cnt, _seq_cnt_lock, descs, classes, body, dom, op, local, acquired,
                   since>>

\* line 45: return obj._widget_cache[self]
GetLoad(t) ==
    /\ pc[t] = "load"
    /\ LET o == heap[Root]._widget_cache[local[t].d]
       IN /\ local' = [local EXCEPT ![t].ret = o]
          /\ since' = Recorded(since, <<Event("get", o, None)>>)
    /\ pc' = [pc EXCEPT ![t] = "idle"]
    /\ UNCHANGED <<_seq_cnt, _seq_cnt_lock, descs, classes, body, heap, dom, op, acquired>>

NextGet ==
    \E t \in Getters :
        \/ \E name \in Range(WidgetNamesOf(TopClass)) : GetStart(t, name)
        \/ GetCheck(t)
        \/ GetBuild(t)
        \/ GetStore(t)
        \/ GetLoad(t)

SpecGet == InitGet /\ [][NextGet]_vars

\* C6: under concurrent first access the widget class is constructed at most
\* once per (descriptor, view) and every thread obtains the same object.
C6_ConcurrentAtMostOnce ==
    \A k \in DOMAIN since :
        /\ Cardinality(since[k].built) <= 1
        /\ Cardinality(since[k].got) <= 1

-----------------------------------------------------------------------------
(* SpecFill: View.fill and View.read on a form *)

\* class Top(View):
\*     a = Input('a')
\*     b = Label('b')              # defines read, inherits Widget.fill
\*     class sub(View):
\*         c = Input('c')
\*         n = NoFill('n')         # def fill(self, value): raise NotImplementedError
FormBody ==
    <<Call("a", <<"Input">>),
      Call("b", <<"Label">>),
      NestedView("sub", <<Call("c", <<"Input">>), Call("n", <<"NoFill">>)>>)>>

FormNames == <<"a", "b", "c", "n", "sub">>

\* a name no view declares
Unknown == "zz"

\* the values a caller hands a widget of class klass
WidgetValues(klass) ==
    IF klass = <<"Input">> THEN {None, Str("x"), Str("y")} ELSE {None, Str("y")}

\* sequences over S of length at most n whose pairs have distinct names
DistinctNamed(S, n) ==
    UNION {{m \in [1..k -> S] : \A i, j \in 1..k : m[i].name = m[j].name => i = j} :
           k \in 0..n}

RECURSIVE FillPairs(_, _)
\* the (name, value) pairs a caller may put in the mapping for a view whose
\* class body is stmts: a value for each widget, None or a mapping half as
\* long for a nested view, and an unknown name
FillPairs(stmts, n) ==
    UNION {IF st.kind = "viewclass"
           THEN {Pair(st.name, None)} \cup
                (IF n = 0 THEN {}
                 ELSE {Pair(st.name, Map(m)) :
                          m \in DistinctNamed(FillPairs(st.body, n \div 2), n \div 2)})
           ELSE {Pair(st.name, v) : v \in WidgetValues(st.klass)} :
           st \in Range(stmts)}
    \cup {Pair(Unknown, None), Pair(Unknown, Str("x"))}

\* the mappings handed to Top.fill
FillInputs == DistinctNamed(FillPairs(FormBody, MaxPairs), MaxPairs)

\* the pages the form is opened on: every element present, or one of the two
\* input boxes missing or stale
FormPages(ds) ==
    {FreshPage(ds)} \cup
    {[FreshPage(ds) EXCEPT ![d].status = st] :
        d \in {i \in 1..Len(ds) : ds[i].klass = <<"Input">>}, st \in {"absent", "stale"}}

InitFill ==
    /\ InitApp(FormBody, FormNames)
    /\ dom \in FormPages(descs)
    /\ pc = NoThreads
    /\ local = NoThreads

\* the caller calls view.fill(values)
Fill(o, values) ==
    /\ op.name = "idle"
    /\ LET r == ViewFill(Here, o, Map(values))
       IN /\ heap' = r.X.heap
          /\ dom' = r.X.dom
          /\ op' = Done("fill", o, Map(values), r, heap, dom)
          /\ since' = Recorded(since, r.X.log)
    /\ UNCHANGED <<_seq_cnt, _seq_cnt_lock, descs, classes, body, pc, local, acquired>>

\* the caller calls view.read()
Read(o) ==
    /\ op.name = "idle"
    /\ LET r == ViewRead(Here, o)
       IN /\ heap' = r.X.heap
          /\ dom' = r.X.dom
          /\ op' = Done("read", o, None, r, heap, dom)
          /\ since' = Recorded(since, r.X.log)
    /\ UNCHANGED <<_seq_cnt, _seq_cnt_lock, descs, classes, body, pc, local, acquired>>

RECURSIVE DictOrders(_)
\* a dict iterates in the order of its hash table: the values equal to v as
\* Python values, in every order iteritems() may give them and the dicts in them
DictOrders(v) ==
    IF v.t # "map" THEN {v}
    ELSE LET n == Len(v.m)
             inner == UNION {DictOrders(v.m[i].value) : i \in 1..n}
         IN {Map([i \in 1..n |-> Pair(v.m[p[i]].name, f[p[i]])]) :
                p \in Perms(n),
                f \in {g \in [1..n -> inner] :
                          \A i \in 1..n : g[i] \in DictOrders(v.m[i].value)}}

\* the caller calls view.fill(view.read()): the read has just returned
\* `values`, and nothing happens to the page before the fill
FillRead(o, values) ==
    /\ op.name = "read"
    /\ op.self = o
    /\ op.exc = ""
    /\ LET r == ViewFill(Here, o, values)
       IN /\ heap' = r.X.heap
          /\ dom' = r.X.dom
          /\ op' = Done("fill_read", o, values, r, heap, dom)
          /\ since' = Recorded(since, r.X.log)
    /\ UNCHANGED <<_seq_cnt, _seq_cnt_lock, descs, classes, body, pc, local, acquired>>

NextFill ==
    \/ \E values \in FillInputs : Fill(Root, values)
    \/ \E o \in ViewObjects : Read(o)
    \/ \E o \in ViewObjects : \E values \in DictOrders(op.ret) : FillRead(o, values)
    \/ Return

SpecFill == InitFill /\ [][NextFill]_vars

-----------------------------------------------------------------------------
(* Claims about View.fill and View.read, under SpecFill *)

\* the descriptor `name` resolves to on class c
DescOf(c, name) == ClassGetAttr(classes, c, name).d

\* the positions of the trace where object o did e
Where(log, e, o) == {i \in 1..Len(log) : log[i].e = e /\ log[i].o = o}

\* the positions of the trace where e happened to a widget built for view o
WhereChild(log, e, o) ==
    {i \in 1..Len(log) : log[i].e = e /\ log[i].o # o
                         /\ SubSeq(log[i].o, 1, Len(log[i].o) - 1) = o}

\* the names of the view the call is on
OpNames == WidgetNamesOf(op.pre[op.self].klass)

\* the call reached, in its own loop, a name the view does not have
ReachedUnknown(i) ==
    /\ op.log[i].e = "pair"
    /\ op.log[i].o = op.self
    /\ op.log[i].v.s \notin Range(OpNames)

\* C7: when View.fill reaches a name that is not in widget_names() it raises
\* NameError at once: nothing is filled for that pair or a later one, after_fill
\* is not invoked, and what earlier pairs filled stays filled.
C7_UnknownNameFatal ==
    op.name = "fill" =>
        \A i \in 1..Len(op.log) :
            ReachedUnknown(i) =>
                /\ op.exc = "NameError"
                /\ Len(op.log) = i + 1
                /\ op.log[i + 1] = Event("raise", op.self, Str("NameError"))
                /\ Where(op.log, "after_fill", op.self) = {}
                /\ \A j \in 1..(i - 1) :
                      (/\ op.log[j].e = "fill"
                       /\ heap[op.log[j].o].klass = <<"Input">>
                       /\ Lookup(op.page, op.log[j].o) = "")
                      => dom[ElementOf(op.log[j].o)].text = op.log[j].v.s

\* C7 witness: an unknown name was reached after an earlier pair had changed
\* the page.
C7_Witness ==
    /\ op.name = "fill"
    /\ op.exc = "NameError"
    /\ \E i \in 1..Len(op.log) : ReachedUnknown(i)
    /\ dom # op.page

RECURSIVE AllKnown(_, _)
\* every name of mapping m, and of the mappings nested in it, is a widget name
AllKnown(c, m) ==
    \A i \in 1..Len(m) :
        /\ m[i].name \in Range(WidgetNamesOf(c))
        /\ m[i].value.t = "map" =>
              AllKnown(descs[DescOf(c, m[i].name)].klass, m[i].value.m)

\* klass neither defines fill nor is a view: widget.fill is Widget.fill
InheritsWidgetFill(klass) ==
    /\ ~IsSubclass(classes, klass, ViewClass)
    /\ klass \notin {<<"Input">>, <<"NoFill">>}

\* C8: a fill that names, with a value, a widget that inherits Widget.fill does
\* not raise: the other pairs are filled, after_fill is invoked and the call
\* returns what the other widgets reported.
C8_NonFillableTolerated ==
    (/\ op.name = "fill"
     /\ op.page = FreshPage(descs)
     /\ AllKnown(op.pre[op.self].klass, op.args.m)
     /\ \E i \in 1..Len(op.args.m) :
           /\ op.args.m[i].value # None
           /\ InheritsWidgetFill(descs[DescOf(op.pre[op.self].klass,
                                              op.args.m[i].name)].klass))
    => /\ op.exc = ""
       /\ op.log[Len(op.log)] = Event("after_fill", op.self, op.ret)
       /\ op.ret = Bool(dom # op.page)

RECURSIVE ElementsUnder(_)
\* the descriptors of the widget d declares and of the widgets nested in it
ElementsUnder(d) ==
    {d} \cup
    (IF IsSubclass(classes, descs[d].klass, ViewClass)
     THEN UNION {ElementsUnder(DescOf(descs[d].klass, n)) :
                    n \in Range(WidgetNamesOf(descs[d].klass))}
     ELSE {})

\* the pairs of the call's mapping that name a widget of the view with None
NonePairs ==
    {i \in 1..Len(op.args.m) :
        op.args.m[i].value = None /\ op.args.m[i].name \in Range(OpNames)}

\* C9: a pair (name, None) with a known name does nothing: the widget is not
\* resolved, built or filled, its value stays, the loop goes on to the next
\* pair without raising, and the pair adds nothing to the returned flag.
C9_NoneSkip ==
    op.name = "fill" =>
        /\ \A i \in NonePairs :
              LET name == op.args.m[i].name
                  d == DescOf(op.pre[op.self].klass, name)
              IN /\ \A j \in 1..Len(op.log) :
                        (op.log[j].e \in {"get", "new", "fill"}
                         /\ SubSeq(op.log[j].o, 1, Len(op.log[j].o) - 1) = op.self)
                        => ElementOf(op.log[j].o) # d
                 /\ (d \in DOMAIN heap[op.self]._widget_cache)
                       = (d \in DOMAIN op.pre[op.self]._widget_cache)
                 /\ \A el \in ElementsUnder(d) : dom[el] = op.page[el]
                 /\ \A j \in 1..Len(op.log) :
                        op.log[j] = Event("pair", op.self, Str(name)) =>
                            /\ j < Len(op.log)
                            /\ op.log[j + 1].o = op.self
                            /\ op.log[j + 1].e \in {"pair", "after_fill"}
        /\ NonePairs = 1..Len(op.args.m) =>
              /\ op.exc = ""
              /\ op.ret = Bool(FALSE)
              /\ dom = op.page
              /\ heap = op.pre

\* C9 witness: a fill with a None pair and another pair that changed the page
\* has returned, and the widget of the None pair is still unresolved.
C9_Witness ==
    /\ op.name = "fill"
    /\ op.exc = ""
    /\ op.ret = Bool(TRUE)
    /\ \E i \in NonePairs :
          /\ Where(op.log, "pair", op.self) # {}
          /\ DescOf(op.pre[op.self].klass, op.args.m[i].name)
                \notin DOMAIN heap[op.self]._widget_cache

\* the widgets View.read read for the view itself, in the order it read them
ReadOrder == SelectSeq([i \in 1..Len(op.log) |-> i],
                       LAMBDA i : i \in WhereChild(op.log, "read", op.self))

\* what widget.read() does on the page as it is
ReadOutcome(o) == ReadCall(Ctx(heap, dom, <<>>), o)

RECURSIVE ReadPairs(_, _)
\* name -> value for the widgets, in order, whose read() returned a value
ReadPairs(names, objs) ==
    IF names = <<>> THEN <<>>
    ELSE LET r == ReadOutcome(Head(objs))
             rest == ReadPairs(Tail(names), Tail(objs))
         IN IF r.exc = "" THEN <<Pair(Head(names), r.ret)>> \o rest ELSE rest

C12_FillReadRoundTrip ==
    op.name = "fill_read" =>
        /\ op.exc = ""
        /\ op.ret = Bool(FALSE)
        /\ dom = op.page

\* the positions of log, in order, that are in the set W
InOrder(log, W) == SelectSeq([i \in 1..Len(log) |-> i], LAMBDA i : i \in W)

\* the views View.fill was called on in the call, nested calls included
FilledViews == {op.log[i].o : i \in {j \in 1..Len(op.log) : op.log[j].e = "before_fill"}}

\* how View.fill on view v came back: the call itself, or as its caller's
\* loop saw the nested call come back
FillOutcome(v) ==
    IF v = op.self THEN [ok |-> op.exc = "", ret |-> op.ret]
    ELSE LET W == Where(op.log, "filled", v)
         IN [ok |-> W # {}, ret |-> IF W = {} THEN None ELSE op.log[CHOOSE i \in W : TRUE].v]

IsUnder(o, v) == Len(v) < Len(o) /\ SubSeq(o, 1, Len(v)) = v

\* C14: when a widget's fill called by View.fill fails with anything but
\* NotImplementedError, that failure is what every enclosing View.fill ends
\* with: no later pair is processed and after_fill is not invoked.
C14_FillFailureFatal ==
    op.name \in {"fill", "fill_read"} =>
        \A i \in 1..Len(op.log) :
            (op.log[i].e = "failed" /\ op.log[i].v # Str("NotImplementedError")) =>
                /\ op.exc = op.log[i].v.s
                /\ \A j \in (i + 1)..Len(op.log) :
                      /\ op.log[j].e = "failed"
                      /\ op.log[j].v = op.log[i].v
                      /\ op.log[j].o = SubSeq(op.log[j - 1].o, 1, Len(op.log[j - 1].o) - 1)
                /\ \A j \in 1..Len(op.log) :
                      op.log[j].e = "after_fill" =>
                          /\ j < i
                          /\ ~IsUnder(op.log[i].o, op.log[j].o)

\* C14 witness: the first of two pairs names an input box whose element is not
\* on the page; the fill ended there with NoSuchElementException.
C14_Witness ==
    /\ op.name = "fill"
    /\ op.exc = "NoSuchElementException"
    /\ Len(op.args.m) = 2
    /\ Cardinality(Where(op.log, "pair", op.self)) = 1
    /\ op.log[Len(op.log)].e = "failed"

-----------------------------------------------------------------------------
(* SpecIso: two Top views on the same browser *)

\* the second instance of the view class
Root2 == <<"I2">>

\* the instance at the top of the parent chain object o was built under
Instance(o) == <<o[1]>>

\* the mappings handed to fill when two instances are at work: a value for an
\* input box, for the label, and for the input box of the nested view
IsoInputs ==
    {<<Pair("a", Str("y"))>>,
     <<Pair("b", Str("y"))>>,
     <<Pair("sub", Map(<<Pair("c", Str("y"))>>))>>}

\* the form's classes are defined and two Top views are built on the browser
InitIso ==
    /\ \E hashOrder \in HashOrders(FormNames) :
          LET S == ClassStatement(Fresh, TopClass, ViewClass, FormBody, hashOrder)
          IN /\ _seq_cnt = S.cnt
             /\ descs = S.descs
             /\ classes = S.classes
    /\ body = FormBody
    /\ heap = (Root :> NewObject(TopClass, Browser)) @@ (Root2 :> NewObject(TopClass, Browser))
    /\ dom = FreshPage(descs)
    /\ op = Idle
    /\ _seq_cnt_lock = 0
    /\ pc = NoThreads
    /\ local = NoThreads
    /\ acquired = <<>>
    /\ since = <<>>

\* view.fill(values) and view.read() while the run has room for the objects
IsoFill(o, values) ==
    /\ Fill(o, values)
    /\ Cardinality(DOMAIN heap') <= MaxObjs

IsoRead(o) ==
    /\ Read(o)
    /\ Cardinality(DOMAIN heap') <= MaxObjs

NextIso ==
    \/ \E o \in ViewObjects : \E name \in Range(WidgetNamesOf(heap[o].klass)) : Access(o, name)
    \/ \E o \in ViewObjects : Flush(o)
    \/ \E o \in {Root, Root2} : \E values \in IsoInputs : IsoFill(o, values)
    \/ \E o \in {Root, Root2} : IsoRead(o)
    \/ Return

SpecIso == InitIso /\ [][NextIso]_vars

\* C11: two instances of one view class resolve a descriptor to different
\* objects, each with its own instance as parent, and a call made on one
\* instance (an access, fill, read or flush) leaves the other's cache as it was.
C11_CacheIsolation ==
    LET c1 == heap[Root]._widget_cache
        c2 == heap[Root2]._widget_cache
    IN /\ \A d \in DOMAIN c1 \cap DOMAIN c2 : c1[d] # c2[d]
       /\ \A r \in {Root, Root2} : \A d \in DOMAIN heap[r]._widget_cache :
             heap[heap[r]._widget_cache[d]].parent = r
       /\ op.name # "idle" =>
             \A r \in {Root, Root2} :
                 r # Instance(op.self) => heap[r]._widget_cache = op.pre[r]._widget_cache

\* C11 witness: both instances hold a widget for the same descriptor and a
\* flush of the first has emptied its cache only.
C11_Witness ==
    /\ op.name = "flush_widget_cache"
    /\ op.self = Root
    /\ DOMAIN op.pre[Root]._widget_cache \cap DOMAIN op.pre[Root2]._widget_cache # {}
    /\ heap[Root]._widget_cache = <<>>
    /\ heap[Root2]._widget_cache # <<>>

\* C19: when flush_widget_cache() returns the view's cache is empty; an
\* access of a descriptor the cache does not hold builds one new object, no
\* object of before, and caches it; an access of one it holds returns the
\* cached object and builds nothing; and no call but a flush removes or
\* replaces an entry of any cache.
C19_FlushEndsLifetime ==
    /\ op.name = "flush_widget_cache" => heap[op.self]._widget_cache = <<>>
    /\ op.name = "getattr" =>
          LET d == DescOf(heap[op.self].klass, op.args.s)
              o == op.ret.m
          IN /\ d \in DOMAIN heap[op.self]._widget_cache
             /\ heap[op.self]._widget_cache[d] = o
             /\ IF d \in DOMAIN op.pre[op.self]._widget_cache
                THEN o = op.pre[op.self]._widget_cache[d] /\ NewObjects(op.log) = {}
                ELSE o \notin DOMAIN op.pre /\ NewObjects(op.log) = {o}
    /\ op.name \notin {"idle", "flush_widget_cache"} =>
          \A q \in DOMAIN op.pre : \A d \in DOMAIN op.pre[q]._widget_cache :
              /\ d \in DOMAIN heap[q]._widget_cache
              /\ heap[q]._widget_cache[d] = op.pre[q]._widget_cache[d]

\* C19 witness: a widget was resolved, the view flushed, and the next access
\* has built and returned a second object for the descriptor.
C19_Witness ==
    /\ op.name = "getattr"
    /\ op.ret.m[Len(op.ret.m)][2] = 2
    /\ NewObjects(op.log) = {op.ret.m}
    /\ SubSeq(op.ret.m, 1, Len(op.ret.m) - 1) \o <<<<ElementOf(op.ret.m), 1>>>>
          \in DOMAIN op.pre

-----------------------------------------------------------------------------
(* Widget.browser, is_displayed and move_to *)

\* a second browser, and an object that is neither a Widget nor a Browser
OtherBrowser == <<"B2">>
Stranger == <<"None">>

\* a failure as a value: what the browser collaborator is told to answer with
Failure(exc) == [t |-> "raise", s |-> exc, m |-> <<>>]

\* the browser object's own `browser` attribute: the browser itself
BrowserBrowser(X, browser) == Returned(X, Ref(browser))

\* line 112: except AttributeError:
BrowserCaughtNothing(exc) == FALSE
BrowserCaught(exc) == exc = "AttributeError"

RECURSIVE WidgetBrowser(_, _)
\* Widget.browser: try: return self.parent.browser
\*                 except AttributeError: raise ValueError(...)
WidgetBrowser(X, self) ==
    LET parent == X.heap[self].parent
        r == IF parent \in DOMAIN X.heap THEN WidgetBrowser(X, parent)
             ELSE IF parent \in {Browser, OtherBrowser} THEN BrowserBrowser(X, parent)
             ELSE Raised(X, "AttributeError")
    IN IF r.exc # "" /\ BrowserCaught(r.exc) THEN Raise(r.X, self, "ValueError") ELSE r

\* browser.is_displayed(widget) and browser.move_to_element(widget): the
\* collaborator returns `answer`, or fails with it
BrowserAnswers(X, answer) ==
    IF answer.t = "raise" THEN Raised(X, answer.s) ELSE Returned(X, answer)

\* Widget.is_displayed: return self.browser.is_displayed(self)
WidgetIsDisplayed(X, self, answer) ==
    LET b == WidgetBrowser(X, self)
    IN IF b.exc # "" THEN b ELSE BrowserAnswers(b.X, answer)

\* Widget.move_to: return self.browser.move_to_element(self)
WidgetMoveTo(X, self, answer) ==
    LET b == WidgetBrowser(X, self)
    IN IF b.exc # "" THEN b ELSE BrowserAnswers(b.X, answer)

\* lines 286 and 298: except LocatorNotImplemented:
ViewCaughtAll(exc) == TRUE
ViewCaught(exc) == exc = "LocatorNotImplemented"

\* View.is_displayed
ViewIsDisplayed(X, self, answer) ==
    LET r == WidgetIsDisplayed(X, self, answer)
    IN IF r.exc # "" /\ ViewCaught(r.exc) THEN Returned(r.X, Bool(TRUE)) ELSE r

\* View.move_to
ViewMoveTo(X, self, answer) ==
    LET r == WidgetMoveTo(X, self, answer)
    IN IF r.exc # "" /\ ViewCaught(r.exc) THEN Returned(r.X, None) ELSE r

\* what the collaborator may answer a visibility check and a pointer move
Failures == {Failure("LocatorNotImplemented"), Failure("NoSuchElementException")}
DisplayedAnswers == {Bool(TRUE), Bool(FALSE)} \cup Failures
MoveAnswers == {Str("element")} \cup Failures

\* the caller assigns view.parent on the root view
SetParent(p) ==
    /\ op.name = "idle"
    /\ heap[Root].parent # p
    /\ heap' = [heap EXCEPT ![Root].parent = p]
    /\ UNCHANGED <<_seq_cnt, _seq_cnt_lock, descs, classes, body, dom, op, pc, local,
                   acquired, since>>

\* the caller evaluates widget.browser
GetBrowser(o) ==
    /\ op.name = "idle"
    /\ LET r == WidgetBrowser(Here, o)
       IN /\ heap' = r.X.heap
          /\ op' = Done("browser", o, None, r, heap, dom)
    /\ UNCHANGED <<_seq_cnt, _seq_cnt_lock, descs, classes, body, dom, pc, local, acquired,
                   since>>

\* the caller evaluates widget.is_displayed
IsDisplayed(o, answer) ==
    /\ op.name = "idle"
    /\ LET r == IF IsView(o, heap) THEN ViewIsDisplayed(Here, o, answer)
                ELSE WidgetIsDisplayed(Here, o, answer)
       IN /\ heap' = r.X.heap
          /\ op' = Done("is_displayed", o, answer, r, heap, dom)
    /\ UNCHANGED <<_seq_cnt, _seq_cnt_lock, descs, classes, body, dom, pc, local, acquired,
                   since>>

\* the caller calls widget.move_to()
MoveTo(o, answer) ==
    /\ op.name = "idle"
    /\ LET r == IF IsView(o, heap) THEN ViewMoveTo(Here, o, answer)
                ELSE WidgetMoveTo(Here, o, answer)
       IN /\ heap' = r.X.heap
          /\ op' = Done("move_to", o, answer, r, heap, dom)
    /\ UNCHANGED <<_seq_cnt, _seq_cnt_lock, descs, classes, body, dom, pc, local, acquired,
                   since>>

NextBrowser ==
    \/ \E o \in ViewObjects : \E name \in Range(WidgetNamesOf(heap[o].klass)) : Access(o, name)
    \/ \E p \in {Browser, OtherBrowser, Stranger} : SetParent(p)
    \/ \E o \in DOMAIN heap : GetBrowser(o)
    \/ \E o \in DOMAIN heap : \E answer \in DisplayedAnswers : IsDisplayed(o, answer)
    \/ \E o \in DOMAIN heap : \E answer \in MoveAnswers : MoveTo(o, answer)
    \/ Return

SpecBrowser == Init /\ [][NextBrowser]_vars

RECURSIVE ChainEnd(_, _)
\* the object at the end of o's parent chain
ChainEnd(h, o) ==
    IF h[o].parent \in DOMAIN h THEN ChainEnd(h, h[o].parent) ELSE h[o].parent

\* C16: on a view, when the collaborator fails with LocatorNotImplemented,
\* is_displayed is True and move_to() is None; when it answers, they return
\* the answer; any other failure passes through unchanged.
C16_RootlessViewFallback ==
    (op.name \in {"is_displayed", "move_to"} /\ IsView(op.self, heap)) =>
        IF ChainEnd(heap, op.self) = Stranger
        THEN op.exc = "ValueError"
        ELSE CASE op.args = Failure("LocatorNotImplemented") ->
                     /\ op.exc = ""
                     /\ op.ret = IF op.name = "is_displayed" THEN Bool(TRUE) ELSE None
               [] op.args.t = "raise" -> op.exc = op.args.s
               [] OTHER -> op.exc = "" /\ op.ret = op.args

\* C16 witness: move_to() on a nested view has returned None because the
\* collaborator found no locator.
C16_Witness ==
    /\ op.name = "move_to"
    /\ IsView(op.self, heap)
    /\ op.self # Root
    /\ op.args = Failure("LocatorNotImplemented")
    /\ op.exc = ""
    /\ op.ret = None

\* C20: widget.browser is the browser at the end of the widget's parent
\* chain; when the chain ends in an object with no browser the access fails
\* with ValueError.
C20_BrowserResolution ==
    op.name = "browser" =>
        IF ChainEnd(heap, op.self) \in {Browser, OtherBrowser}
        THEN op.exc = "" /\ op.ret = Ref(ChainEnd(heap, op.self))
        ELSE op.exc = "ValueError"

\* C20 witness: the browser of a widget three views deep was asked for while
\* the root view's parent had no browser.
C20_Witness ==
    /\ op.name = "browser"
    /\ Len(op.self) = 4
    /\ heap[Root].parent = Stranger
    /\ op.exc = "ValueError"

-----------------------------------------------------------------------------
(* SpecSub: a subclass of the Top view with a drawn body, then widget_names() *)

SubClass == <<"Sub">>

\* Top is defined; the subclass, whose body is drawn under the names a, b
\* (which Top declares as widgets) and c, is not yet
InitSub ==
    /\ body \in DrawnBodies
    /\ \E h \in HashOrders(<<"a", "b", "sub">>) :
          LET S == ClassStatement(Fresh, TopClass, ViewClass, AppBody,
                                  h \o <<"c", "d", "leaf">>)
          IN /\ _seq_cnt = S.cnt
             /\ descs = S.descs
             /\ classes = S.classes
    /\ heap = <<>>
    /\ dom = <<>>
    /\ op = Idle
    /\ _seq_cnt_lock = 0
    /\ pc = NoThreads
    /\ local = NoThreads
    /\ acquired = <<>>
    /\ since = <<>>

\* the interpreter runs `class Sub(Top): <body>`
DefineSub ==
    /\ SubClass \notin DOMAIN classes
    /\ \E h \in HashOrders([i \in 1..Len(body) |-> body[i].name]) :
          LET S == ClassStatement(Interp(_seq_cnt, descs, classes), SubClass, TopClass,
                                  body, h \o <<"w">>)
          IN /\ _seq_cnt' = S.cnt
             /\ descs' = S.descs
             /\ classes' = S.classes
    /\ UNCHANGED <<_seq_cnt_lock, body, heap, dom, op, pc, local, acquired, since>>

\* the caller calls c.widget_names() on Top or on Sub
WidgetNamesOn(c) ==
    /\ c \in DOMAIN classes
    /\ op.name = "idle"
    /\ op' = [Idle EXCEPT !.name = "widget_names", !.self = c,
                          !.ret = List(WidgetNamesOf(c))]
    /\ UNCHANGED <<_seq_cnt, _seq_cnt_lock, descs, classes, body, heap, dom, pc, local,
                   acquired, since>>

NextSub ==
    \/ DefineSub
    \/ \E c \in {TopClass, SubClass} : WidgetNamesOn(c)
    \/ Return

SpecSub == InitSub /\ [][NextSub]_vars

\* what `name` resolves to on the subclass
OnSub(name) == ClassGetAttr(classes, SubClass, name)

\* the position of name in the list returned
PositionOf(name) == CHOOSE i \in 1..Len(op.ret.m) : op.ret.m[i] = name

\* the names of the list returned are distinct and in ascending order of the
\* sequence ids of the descriptors they resolve to on the subclass; a name the
\* subclass declares resolves to the subclass's descriptor; and the names the
\* subclass declares come after the inherited ones it leaves alone
SubclassOrder ==
    LET names == op.ret.m
        own == DOMAIN classes[SubClass].attrs
    IN /\ \A i, j \in 1..Len(names) :
             i < j => /\ names[i] # names[j]
                      /\ OnSub(names[i]).t = "desc"
                      /\ OnSub(names[j]).t = "desc"
                      /\ descs[OnSub(names[i]).d]._seq_id < descs[OnSub(names[j]).d]._seq_id
       /\ \A n \in Range(names) \cap own : OnSub(n) = classes[SubClass].attrs[n]
       /\ \A n \in Range(names) \cap own : \A m \in Range(names) \ own :
             PositionOf(m) < PositionOf(n)

\* C17 as stated: Sub.widget_names() holds every widget name of Top and every
\* widget the subclass declares, each once, in ascending order of the sequence
\* ids of the descriptors the names resolve to on the subclass.
C17_SubclassOrderAsClaimed ==
    (op.name = "widget_names" /\ op.self = SubClass) =>
        /\ Range(op.ret.m) = Range(WidgetNamesOf(TopClass)) \cup Range(DeclaredWidgets(body))
        /\ SubclassOrder

\* C17 amended: Sub.widget_names() holds every widget name of Top that the
\* subclass does not rebind to something that is not a WidgetDescriptor, and
\* every name the subclass binds to a WidgetDescriptor, each once, in
\* ascending order of the sequence ids of the descriptors the names resolve to
\* on the subclass.
C17_SubclassOrder ==
    (op.name = "widget_names" /\ op.self = SubClass) =>
        LET own == DOMAIN classes[SubClass].attrs
        IN /\ Range(op.ret.m) =
                 (Range(WidgetNamesOf(TopClass)) \ {n \in own : OnSub(n).t # "desc"})
                 \cup {n \in own : classes[SubClass].attrs[n].t = "desc"}
           /\ Range(DeclaredWidgets(body)) \subseteq Range(op.ret.m)
           /\ SubclassOrder

\* C17 witness: the subclass redeclares widget a, hides widget b behind a plain
\* attribute and adds c; Sub.widget_names() has returned with a after sub.
C17_Witness ==
    /\ op.name = "widget_names"
    /\ op.self = SubClass
    /\ {"a", "c"} \subseteq Range(DeclaredWidgets(body))
    /\ "b" \in DOMAIN classes[SubClass].attrs
    /\ "b" \notin Range(op.ret.m)
    /\ PositionOf("sub") < PositionOf("a")

====
